---- MODULE Spec2Model ----
(***************************************************************************)
(* Pausable data pipeline of ohlc/candles/app.py: DataSource (pause,       *)
(* unpause, next, loop) driven by a single controller thread (the urwid    *)
(* main loop of CandleApp) while every unpause() starts one background     *)
(* thread running DataSource.loop.  Every read or write of a shared field  *)
(* (self.paused, self.thread, the generator, the sink) is one step, so all *)
(* interleavings of the controller with the loop threads are explored.     *)
(***************************************************************************)
EXTENDS Integers, Sequences, FiniteSets, TLC

\* ---- bounds -------------------------------------------------------------
MaxThreads == 2        \* Thread objects one run may create (unpause calls)
GenLen == 3            \* length of a finite source_gen

\* ---- values -------------------------------------------------------------
None == 0                           \* Python None (thread handle, value)
NoFail == <<None, None>>            \* no failed send on record
Threads == 1..MaxThreads            \* identities of the Thread objects
GenKinds == {"none", "finite", "endless"}
Rates == {0, 1}                     \* data_rate: 0 = no sleep, 1 = sleep(1.0)

VARIABLES
    sink,       \* self.sink is not None
    source_gen, \* kind of self.source_gen: None, finite iterator, endless one
    data_rate,  \* self.data_rate
    paused,     \* self.paused
    thread,     \* self.thread: None or a Thread identity
    gen,        \* cursor of source_gen: number of values already yielded
    chart,      \* values the sink has accepted, in the order of the sends
    pc,         \* per Thread: position of its loop() ("none" = not created)
    t,          \* per Thread: local t of loop()
    v,          \* per Thread: local v of loop(), from the pull to the send
    lastFail,   \* the last send that failed and was logged: <<thread, value>>
    cpc,        \* controller: line it is about to execute ("idle" = no call)
    inUnpause,  \* controller: pause() was entered from unpause()
    ct,         \* controller: local t of pause()
    res,        \* controller: how the last call ended
    ret,        \* controller: value returned by next(), if that was the last call
    barrier,    \* a pause() call has returned and no unpause() was called since
    quiet,      \* ret was pulled while the pipeline was paused with no loop alive
    script,     \* the calls made so far, as far as the scenarios tell them apart
    took        \* per value: how often it was handed out (sent by a loop or
                \* returned by next()), counted up to 2

vars == <<sink, source_gen, data_rate, paused, thread, gen, chart, pc, t, v,
          lastFail, cpc, inUnpause, ct, res, ret, barrier, quiet, script, took>>

config == <<sink, source_gen, data_rate>>
loopvars == <<pc, t, v, lastFail>>
ctlvars == <<cpc, inUnpause, ct, res, ret, barrier, quiet, script>>

\* ---- the generator (builtin next() on self.source_gen) -------------------
\* A finite source_gen yields 1, 2, .., GenLen and then raises StopIteration
\* (iter(range(1, GenLen + 1))); an endless one yields the same tick for ever
\* (itertools.repeat(1)); gen counts the values a finite one has yielded.
GenHasNext == source_gen = "endless" \/ (source_gen = "finite" /\ gen < GenLen)
GenValue == IF source_gen = "endless" THEN 1 ELSE gen + 1
GenAdvance == IF source_gen = "endless" THEN gen ELSE gen + 1
\* the value the generator yields right after it has yielded x
GenSucc(x) == IF source_gen = "endless" THEN 1 ELSE x + 1

\* ---- the sink (CandleApp.send) -------------------------------------------
\* chart.add_ohlc: the chart keeps the most recent GenLen values (all that a
\* finite source_gen can yield).
add_ohlc(c, x) == IF Len(c) < GenLen THEN Append(c, x) ELSE Append(Tail(c), x)
\* send never raises: a failure inside is caught and logged (bare except).
send(c, x, ok) == IF ok /\ x # None THEN add_ohlc(c, x) ELSE c

\* ---- construction ---------------------------------------------------------
\* a DataSource that starts in running mode: line 57 as self.paused = False
Init_unpaused ==
    /\ sink \in BOOLEAN
    /\ source_gen \in GenKinds
    /\ data_rate \in Rates
    /\ paused = FALSE
    /\ thread = None
    /\ gen = 0
    /\ chart = <<>>
    /\ pc = [i \in Threads |-> "none"]
    /\ t = [i \in Threads |-> None]
    /\ v = [i \in Threads |-> None]
    /\ lastFail = NoFail
    /\ cpc = "idle"
    /\ inUnpause = FALSE
    /\ ct = None
    /\ res = "none"
    /\ ret = None
    /\ barrier = FALSE
    /\ quiet = FALSE
    /\ script = "start"
    /\ took = [x \in 1..GenLen |-> 0]

\* DataSource.__init__ ; CandleApp.__init__ binds the sink before any call.
Init ==
    /\ sink \in BOOLEAN
    /\ source_gen \in GenKinds
    /\ data_rate \in Rates
    /\ paused = TRUE
    /\ thread = None
    /\ gen = 0
    /\ chart = <<>>
    /\ pc = [i \in Threads |-> "none"]
    /\ t = [i \in Threads |-> None]
    /\ v = [i \in Threads |-> None]
    /\ lastFail = NoFail
    /\ cpc = "idle"
    /\ inUnpause = FALSE
    /\ ct = None
    /\ res = "none"
    /\ ret = None
    /\ barrier = FALSE
    /\ quiet = FALSE
    /\ script = "start"
    /\ took = [x \in 1..GenLen |-> 0]

\* ---- helpers --------------------------------------------------------------
Created == {i \in Threads : pc[i] # "none"}
NewThread == Cardinality(Created) + 1
Finished(i) == pc[i] \in {"done", "died"}
Alive(i) == pc[i] \notin {"none", "created", "done", "died"}
\* the loop positions from which the thread calls sink.send without
\* consulting self.paused or self.thread again
Delivering(i) == pc[i] \in {"l89", "l90"}
\* paused, and no loop thread that could still run
Quiescent == paused /\ \A i \in Threads : pc[i] \in {"none", "done", "died"}

\* The call histories the scenarios below speak about: no call yet ("start"),
\* one unpause ("u"), unpause then pause ("up"), unpause then next ("un"),
\* unpause, pause and then next calls ("upn"), next calls only ("n"),
\* toggle_pause calls only, an odd or an even number of them ("t_odd",
\* "t_even"); every other history is "other".
called(call) ==
    CASE call = "unpause" /\ script = "start" -> "u"
      [] call = "pause" /\ script = "u" -> "up"
      [] call = "next" /\ script \in {"start", "n"} -> "n"
      [] call = "next" /\ script = "u" -> "un"
      [] call = "next" /\ script \in {"up", "upn"} -> "upn"
      [] call = "toggle_pause" /\ script \in {"start", "t_even"} -> "t_odd"
      [] call = "toggle_pause" /\ script = "t_odd" -> "t_even"
      [] OTHER -> "other"

\* value x is handed out once more (the count stops at 2)
hand_out(x) ==
    IF x = None THEN took
    ELSE [took EXCEPT ![x] = IF @ < 2 THEN @ + 1 ELSE @]

\* a loop() frame ends: its locals are gone
loop_exit(i, how) ==
    /\ pc' = [pc EXCEPT ![i] = how]
    /\ t' = [t EXCEPT ![i] = None]
    /\ v' = [v EXCEPT ![i] = None]
    /\ lastFail' = IF lastFail[1] = i THEN NoFail ELSE lastFail

\* ---- DataSource.pause -----------------------------------------------------
\* line 61 without its early return: the frame always goes on to line 62
line_61_no_return(inU) ==
    /\ inUnpause' = inU
    /\ cpc' = "l62"
    /\ res' = "none"
    /\ barrier' = IF inU THEN FALSE ELSE barrier
    /\ ret' = None
    /\ quiet' = FALSE
    /\ UNCHANGED <<config, paused, thread, gen, chart, loopvars, ct, took>>

\* line 61, reached from a pause() call (inU = FALSE) or from line 68 of
\* unpause() (inU = TRUE); when the flag is set the frame returns at once
line_61(inU) ==
    /\ inUnpause' = inU
    /\ IF paused
       THEN IF inU
            THEN cpc' = "l69" /\ res' = "none" /\ barrier' = FALSE
            ELSE cpc' = "idle" /\ res' = "returned" /\ barrier' = TRUE
       ELSE /\ cpc' = "l62"
            /\ res' = "none"
            /\ barrier' = IF inU THEN FALSE ELSE barrier
    /\ ret' = None
    /\ quiet' = FALSE
    /\ UNCHANGED <<config, paused, thread, gen, chart, loopvars, ct, took>>

\* the controller calls source.pause()
pause ==
    /\ cpc = "idle"
    /\ line_61(FALSE)
    /\ script' = called("pause")

\* pause() entered from toggle_pause, line 142 or line 141
pause_61 ==
    /\ cpc = "l61"
    /\ line_61(inUnpause)
    /\ UNCHANGED script

pause_62 ==
    /\ cpc = "l62"
    /\ paused' = TRUE
    /\ cpc' = "l63"
    /\ UNCHANGED <<config, thread, gen, chart, loopvars, inUnpause, ct, res, ret, barrier, quiet, script, took>>

pause_63 ==
    /\ cpc = "l63"
    /\ ct' = thread
    /\ cpc' = "l64"
    /\ UNCHANGED <<config, paused, thread, gen, chart, loopvars, inUnpause, res, ret, barrier, quiet, script, took>>

\* t.join(): AttributeError on None, else blocks until the thread has ended
pause_64 ==
    /\ cpc = "l64"
    /\ IF ct = None
       THEN /\ cpc' = "idle"
            /\ res' = "AttributeError"
       ELSE /\ Finished(ct)
            /\ cpc' = "l65"
            /\ UNCHANGED res
    /\ UNCHANGED <<config, paused, thread, gen, chart, loopvars, inUnpause, ct, ret, barrier, quiet, script, took>>

pause_65 ==
    /\ cpc = "l65"
    /\ thread' = None
    /\ ct' = None
    /\ IF inUnpause
       THEN cpc' = "l69" /\ UNCHANGED <<res, barrier>>
       ELSE cpc' = "idle" /\ res' = "returned" /\ barrier' = TRUE
    /\ UNCHANGED <<config, paused, gen, chart, loopvars, inUnpause, ret, quiet, script, took>>

\* ---- DataSource.unpause ---------------------------------------------------
\* the controller calls source.unpause(): line 68 enters pause()
unpause ==
    /\ cpc = "idle"
    /\ Cardinality(Created) < MaxThreads
    /\ line_61(TRUE)
    /\ script' = called("unpause")

unpause_69 ==
    /\ cpc = "l69"
    /\ thread' = NewThread
    /\ ct' = NewThread
    /\ pc' = [pc EXCEPT ![NewThread] = "created"]
    /\ cpc' = "l71"
    /\ UNCHANGED <<config, paused, gen, chart, t, v, lastFail, inUnpause, res, ret, barrier, quiet, script, took>>

\* t.start() returns to the caller; the new thread is at the top of loop()
unpause_71 ==
    /\ cpc = "l71"
    /\ pc' = [pc EXCEPT ![ct] = "l83"]
    /\ ct' = None
    /\ cpc' = "idle"
    /\ res' = "returned"
    /\ UNCHANGED <<config, paused, thread, gen, chart, t, v, lastFail, inUnpause, ret, barrier, quiet, script, took>>

\* ---- CandleApp.toggle_pause -------------------------------------------------
\* line 141 reads source.paused and picks the call, which reads it again
toggle_pause ==
    /\ cpc = "idle"
    /\ sink
    /\ paused => Cardinality(Created) < MaxThreads
    /\ cpc' = "l61"
    /\ inUnpause' = paused
    /\ barrier' = IF paused THEN FALSE ELSE barrier
    /\ res' = "none"
    /\ ret' = None
    /\ quiet' = FALSE
    /\ script' = called("toggle_pause")
    /\ UNCHANGED <<config, paused, thread, gen, chart, loopvars, ct, took>>

\* ---- DataSource.next ------------------------------------------------------
\* lines 78-79 peeking at the generator instead of advancing it
next_body_peek(after) ==
    /\ ret' = IF GenHasNext THEN GenValue ELSE None
    /\ cpc' = IF source_gen # "none" /\ ~GenHasNext THEN "idle" ELSE after
    /\ res' = IF source_gen # "none" /\ ~GenHasNext THEN "StopIteration"
              ELSE IF after = "idle" THEN "returned" ELSE "none"
    /\ quiet' = (GenHasNext /\ Quiescent)
    /\ took' = hand_out(ret')
    /\ UNCHANGED <<config, paused, thread, gen, chart, loopvars, inUnpause, ct, barrier>>

\* line 79 alone: without the test of line 78, next(None) raises TypeError
next_body_unguarded(after) ==
    /\ IF GenHasNext
       THEN /\ ret' = GenValue
            /\ gen' = GenAdvance
            /\ cpc' = after
            /\ res' = IF after = "idle" THEN "returned" ELSE "none"
            /\ quiet' = Quiescent
       ELSE /\ ret' = None
            /\ cpc' = "idle"
            /\ res' = IF source_gen = "none" THEN "TypeError" ELSE "StopIteration"
            /\ quiet' = FALSE
            /\ UNCHANGED gen
    /\ took' = hand_out(ret')
    /\ UNCHANGED <<config, paused, thread, chart, loopvars, inUnpause, ct, barrier>>

\* lines 78-79 on behalf of a caller that goes on at `after`
next_body(after) ==
    /\ IF source_gen = "none"
       THEN /\ ret' = None
            /\ cpc' = after
            /\ res' = IF after = "idle" THEN "returned" ELSE "none"
            /\ quiet' = FALSE
            /\ UNCHANGED gen
       ELSE IF GenHasNext
       THEN /\ ret' = GenValue
            /\ gen' = GenAdvance
            /\ cpc' = after
            /\ res' = IF after = "idle" THEN "returned" ELSE "none"
            /\ quiet' = Quiescent
       ELSE /\ ret' = None
            /\ cpc' = "idle"
            /\ res' = "StopIteration"
            /\ quiet' = FALSE
            /\ UNCHANGED gen
    /\ took' = hand_out(ret')
    /\ UNCHANGED <<config, paused, thread, chart, loopvars, inUnpause, ct, barrier>>

\* the controller calls source.next()
next ==
    /\ cpc = "idle"
    /\ next_body("idle")
    /\ script' = called("next")

\* ---- CandleApp.next_candle ------------------------------------------------
\* line 144: the argument self.source.next() is evaluated first
next_candle ==
    /\ cpc = "idle"
    /\ sink
    /\ next_body("l144")
    /\ script' = called("next_candle")

\* line 144: self.send(...) with the value just pulled
next_candle_144 ==
    /\ cpc = "l144"
    /\ \E ok \in BOOLEAN : chart' = send(chart, ret, ok)
    /\ cpc' = "idle"
    /\ res' = "returned"
    /\ ret' = None
    /\ quiet' = FALSE
    /\ UNCHANGED <<config, paused, thread, gen, loopvars, inUnpause, ct, barrier, script, took>>

\* ---- DataSource.loop, one background thread i ------------------------------
loop_83(i) ==
    /\ pc[i] = "l83"
    /\ IF sink
       THEN /\ paused' = FALSE
            /\ pc' = [pc EXCEPT ![i] = "l85"]
            /\ UNCHANGED <<t, v, lastFail>>
       ELSE /\ loop_exit(i, "died")
            /\ UNCHANGED paused
    /\ UNCHANGED <<config, thread, gen, chart, ctlvars, took>>

loop_85(i) ==
    /\ pc[i] = "l85"
    /\ t' = [t EXCEPT ![i] = thread]
    /\ pc' = [pc EXCEPT ![i] = "l86"]
    /\ UNCHANGED <<config, paused, thread, gen, chart, v, lastFail, ctlvars, took>>

loop_86(i) ==
    /\ pc[i] = "l86"
    /\ IF paused
       THEN loop_exit(i, "done")
       ELSE pc' = [pc EXCEPT ![i] = "l87"] /\ UNCHANGED <<t, v, lastFail>>
    /\ UNCHANGED <<config, paused, thread, gen, chart, ctlvars, took>>

loop_87(i) ==
    /\ pc[i] = "l87"
    /\ IF t[i] # thread
       THEN loop_exit(i, "done")
       ELSE pc' = [pc EXCEPT ![i] = "l89"] /\ UNCHANGED <<t, v, lastFail>>
    /\ UNCHANGED <<config, paused, thread, gen, chart, ctlvars, took>>

\* line 89 reading the generator's next value without advancing it
loop_89_peek(i) ==
    /\ pc[i] = "l89"
    /\ IF GenHasNext
       THEN /\ v' = [v EXCEPT ![i] = GenValue]
            /\ pc' = [pc EXCEPT ![i] = "l90"]
            /\ UNCHANGED <<t, lastFail, gen>>
       ELSE /\ loop_exit(i, "died")
            /\ UNCHANGED gen
    /\ UNCHANGED <<config, paused, thread, chart, ctlvars, took>>

loop_89(i) ==
    /\ pc[i] = "l89"
    /\ IF GenHasNext
       THEN /\ v' = [v EXCEPT ![i] = GenValue]
            /\ gen' = GenAdvance
            /\ pc' = [pc EXCEPT ![i] = "l90"]
            /\ UNCHANGED <<t, lastFail>>
       ELSE /\ loop_exit(i, "died")
            /\ UNCHANGED gen
    /\ UNCHANGED <<config, paused, thread, chart, ctlvars, took>>

\* the record of failed sends after thread i sent x with outcome ok
logged(i, x, ok) ==
    IF ~ok THEN <<i, x>> ELSE IF lastFail[1] = i THEN NoFail ELSE lastFail

\* line 90 with a sink whose failure is not caught: the exception ends the loop
loop_90_uncaught(i) ==
    /\ pc[i] = "l90"
    /\ \E ok \in BOOLEAN :
        IF ok
        THEN /\ chart' = send(chart, v[i], ok)
             /\ lastFail' = logged(i, v[i], ok)
             /\ v' = [v EXCEPT ![i] = None]
             /\ pc' = [pc EXCEPT ![i] = IF data_rate # 0 THEN "l91" ELSE "l86"]
             /\ UNCHANGED t
        ELSE /\ loop_exit(i, "died")
             /\ UNCHANGED chart
    /\ took' = hand_out(v[i])
    /\ UNCHANGED <<config, paused, thread, gen, ctlvars>>

\* line 91 without its test: 1.0 / float(0) raises ZeroDivisionError, which
\* ends the loop
loop_90_unchecked(i) ==
    /\ pc[i] = "l90"
    /\ \E ok \in BOOLEAN :
        /\ chart' = send(chart, v[i], ok)
        /\ IF data_rate # 0
           THEN /\ lastFail' = logged(i, v[i], ok)
                /\ v' = [v EXCEPT ![i] = None]
                /\ pc' = [pc EXCEPT ![i] = "l91"]
                /\ UNCHANGED t
           ELSE loop_exit(i, "died")
    /\ took' = hand_out(v[i])
    /\ UNCHANGED <<config, paused, thread, gen, ctlvars>>

\* v is not read again after the send, so the model drops it there
loop_90(i) ==
    /\ pc[i] = "l90"
    /\ \E ok \in BOOLEAN :
        /\ chart' = send(chart, v[i], ok)
        /\ lastFail' = logged(i, v[i], ok)
    /\ v' = [v EXCEPT ![i] = None]
    /\ pc' = [pc EXCEPT ![i] = IF data_rate # 0 THEN "l91" ELSE "l86"]
    /\ took' = hand_out(v[i])
    /\ UNCHANGED <<config, paused, thread, gen, t, ctlvars>>

loop_91(i) ==
    /\ pc[i] = "l91"
    /\ pc' = [pc EXCEPT ![i] = "l86"]
    /\ UNCHANGED <<config, paused, thread, gen, chart, t, v, lastFail, ctlvars, took>>

loop(i) ==
    \/ loop_83(i)
    \/ loop_85(i)
    \/ loop_86(i)
    \/ loop_87(i)
    \/ loop_89(i)
    \/ loop_90(i)
    \/ loop_91(i)

controller ==
    \/ pause
    \/ unpause
    \/ toggle_pause
    \/ next
    \/ next_candle
    \/ pause_61
    \/ pause_62
    \/ pause_63
    \/ pause_64
    \/ pause_65
    \/ unpause_69
    \/ unpause_71
    \/ next_candle_144

Next ==
    \/ controller
    \/ \E i \in Threads : loop(i)

Spec == Init /\ [][Next]_vars

\* Scheduling: every started thread keeps getting the interpreter, and the
\* controller finishes a call it has begun (it need not begin another).
FairSpec ==
    /\ Spec
    /\ \A i \in Threads : WF_vars(loop(i))
    /\ WF_vars(cpc # "idle" /\ controller)
\* ---- properties ------------------------------------------------------------
\* a sink and a generator are bound
Configured == sink /\ source_gen # "none"

\* thread i completes a sink.send in this step
Delivers(i) == pc[i] = "l90" /\ pc'[i] # "l90"

\* C1: mutual exclusion - no two distinct loop instances are at the same time
\* past their `while not paused` and supersession checks, able to send.
MutualExclusion ==
    Configured =>
        \A i, j \in Threads : i # j => ~(Delivering(i) /\ Delivering(j))

\* C2: pause is a barrier - once a pause() call has returned, no loop thread
\* sends to the sink until unpause() is called again.
PauseIsBarrier ==
    [][barrier => \A i \in Threads : ~Delivers(i)]_vars

\* C3: once a pause() call has returned, and until the next unpause() call,
\* the flag is True and the handle is cleared.
PausedAfterPause ==
    (Configured /\ barrier) => (paused /\ thread = None)

\* C4: with a sink bound, pause() and unpause() never raise; pause() never
\* reaches its join with t = None.
PauseResumeNeverRaise ==
    Configured => (res # "AttributeError" /\ (cpc = "l64" => ct # None))

\* the controller is inside a pause() or unpause() call
InPauseOrUnpause == cpc \in {"l61", "l62", "l63", "l64", "l65", "l69", "l71"}

\* C5: with a sink and a generator that always yields, every pause() and
\* unpause() call the controller has begun returns (the joined loop sees the
\* flag and exits).
CallsReturn ==
    (sink /\ source_gen = "endless" /\ InPauseOrUnpause) ~> (cpc = "idle")

\* C6: pause() on a paused pipeline returns at line 61: no join, and the flag,
\* the handle, the generator cursor, the sink and every loop are as before.
IdempotentPause ==
    [][(paused /\ (pause \/ (pause_61 /\ ~inUnpause)))
        => /\ cpc' = "idle"
           /\ res' = "returned"
           /\ UNCHANGED <<paused, thread, gen, chart, pc, ct>>]_vars

\* a pause() has returned although the registered handle's thread has not even
\* run its first line: nothing was joined, the handle is still there
IdempotentPauseSeen ==
    /\ cpc = "idle" /\ res = "returned" /\ barrier
    /\ paused /\ thread # None /\ pc[thread] = "l83"

\* C7: unpause() with no sink raises to its caller and leaves the pipeline
\* paused, with no handle registered.
ResumeWithoutSinkRaises ==
    [][(~sink /\ inUnpause /\ cpc # "idle" /\ cpc' = "idle")
        => (res' # "returned" /\ paused' /\ thread' = None /\ gen' = gen)]_vars

\* thread i's send of value x has failed and i has not sent again since
FailedLast(i, x) == lastFail = <<i, x>> /\ x # None

\* C8 as claimed: a send that fails leaves the loop running and the flag as
\* it was, and the loop's next pull is the value right after the failed one.
SinkFailureNextValue ==
    [][\A i \in Threads : \A x \in 1..GenLen :
        /\ (Delivers(i) /\ FailedLast(i, x)')
            => (pc'[i] \in {"l91", "l86"} /\ paused' = paused)
        /\ (FailedLast(i, x) /\ pc[i] = "l89" /\ pc'[i] = "l90")
            => v'[i] = GenSucc(x)]_vars

\* C8 as amended: a send, failed or not, is followed by the same next line of
\* the loop and leaves flag, handle and cursor alone (a failed one leaves the
\* chart alone too); after a failed send the loop's next pull takes the value
\* the generator yields then: never the failed one again, and the one right
\* after it when nothing else has pulled since.
SinkFailureIsolated ==
    [][\A i \in Threads : \A x \in 1..GenLen :
        /\ Delivers(i)
            => /\ pc'[i] = (IF data_rate # 0 THEN "l91" ELSE "l86")
               /\ FailedLast(i, x)' => (chart' = chart /\ x = v[i])
               /\ UNCHANGED <<paused, thread, gen, t>>
        /\ (FailedLast(i, x) /\ pc[i] = "l89" /\ pc'[i] = "l90")
            => /\ v'[i] = GenValue
               /\ gen' = GenAdvance
               /\ source_gen = "finite" => v'[i] > x
               /\ (source_gen = "finite" /\ gen = x) => v'[i] = GenSucc(x)]_vars

\* the first send of a loop failed and the loop has pulled the second value
SinkFailureSurvived ==
    \E i \in Threads :
        /\ FailedLast(i, 1) /\ pc[i] = "l90" /\ v[i] = 2
        /\ source_gen = "finite" /\ chart = <<>>

\* C9: once a loop has died on the exhausted generator and no loop is left,
\* the pipeline is paused.
ExhaustionReturnsToPaused ==
    (/\ sink /\ source_gen = "finite"
     /\ \E i \in Threads : pc[i] = "died"
     /\ \A j \in Threads : pc[j] \in {"none", "done", "died"})
    => paused

\* C10: next() on a paused pipeline with no loop alive returns the value at
\* the generator's cursor and advances it by one, so that successive calls
\* return successive values; flag, handle, sink and loops are as before.
BypassIndependence ==
    [][(Quiescent /\ GenHasNext /\ next)
        => /\ ret' = GenValue
           /\ gen' = GenAdvance
           /\ res' = "returned"
           /\ (quiet /\ ret # None) => ret' = GenSucc(ret)
           /\ UNCHANGED <<paused, thread, chart, pc>>]_vars

\* two next() calls in a row on a pipeline that never ran: the second
\* returned the second value
BypassTwice ==
    /\ cpc = "idle" /\ res = "returned" /\ quiet /\ ret = 2
    /\ source_gen = "finite" /\ Created = {} /\ chart = <<>>

\* C11: next() on a DataSource without a generator returns None instead of
\* raising, whether the source is paused or running, and changes neither
\* paused, thread, the generator, the sink's record nor any loop.
NextWithoutGenerator ==
    [][(source_gen = "none" /\ next) =>
          /\ cpc' = "idle"
          /\ res' = "returned"
          /\ ret' = None
          /\ UNCHANGED <<paused, thread, gen, chart, pc, t, v, took>>]_vars

\* next() has returned None on a running source: only unpause and next calls
\* were made and the loop has cleared the flag
NextWithoutGeneratorSeen ==
    /\ source_gen = "none"
    /\ script = "un"
    /\ ~paused
    /\ cpc = "idle"
    /\ res = "returned"
    /\ ret = None

\* ---- one unpause() followed by one pause(), no next() ---------------------
\* values pulled by a loop and not yet sent
InFlight == Cardinality({i \in Threads : v[i] # None})

\* C12: after a single unpause() and a later pause(), with no next() call,
\* the values the sink has recorded are 1, 2, .. in the generator's order
\* without gap or repeat (as long as no send failed), and the record does
\* not grow once pause() has returned.
SingleRunIsPrefix ==
    [][(sink /\ source_gen = "finite" /\ script \in {"u", "up"}) =>
          /\ (Len(chart') + InFlight' = gen') =>
                 chart' = [k \in 1..Len(chart') |-> k]
          /\ (script = "up" /\ cpc = "idle") => Len(chart') = Len(chart)]_vars

\* C13: when unpause() has returned on a source with a sink (and a
\* generator), the flag is False, so the very next read of paused observes a running source.
RunningAfterUnpause ==
    (Configured /\ script = "u" /\ cpc = "idle") => ~paused

\* ---- before the first unpause() -------------------------------------------
\* no unpause() call has been made so far, directly or from toggle_pause
NoResumeYet == Created = {} /\ ~(inUnpause /\ cpc # "idle")

\* C14: a DataSource starts paused with no thread, and until the first
\* unpause() call it stays so and no loop delivers anything to the sink.
StartsPaused ==
    NoResumeYet =>
        /\ paused
        /\ thread = None
        /\ lastFail = NoFail
        /\ \A i \in Threads : ~Delivering(i) /\ v[i] = None

\* pause() and next() have been called and have returned before any unpause()
StartsPausedSeen ==
    /\ NoResumeYet
    /\ barrier
    /\ cpc = "idle"
    /\ res = "returned"
    /\ ret = 1

\* C15: a loop goes past the test of line 87, on to its next delivery, only
\* while self.thread is its own Thread; a loop whose Thread was replaced
\* leaves instead, even if it started to run only after the replacement.
SelfEviction ==
    [][Configured =>
          \A i \in Threads : (pc[i] = "l87" /\ pc'[i] = "l89") => thread = i]_vars

\* C16: after each delivery the loop sleeps exactly once before its next
\* iteration when data_rate > 0 and goes straight to the next iteration when
\* data_rate = 0; a loop sleeps at no other point, and a rate of 0 does not
\* end the loop.
RateStep ==
    [][\A i \in Threads :
          /\ Delivers(i) => pc'[i] = (IF data_rate > 0 THEN "l91" ELSE "l86")
          /\ (pc[i] # "l91" /\ pc'[i] = "l91") => (Delivers(i) /\ data_rate > 0)
          /\ (pc[i] = "l91" /\ pc'[i] # "l91") => pc'[i] = "l86"]_vars

\* with data_rate = 0 a loop has delivered 1 (the send failed) and is in its
\* next iteration with 2 already pulled
RateZeroKeepsGoing ==
    /\ data_rate = 0
    /\ \E i \in Threads : lastFail = <<i, 1>> /\ pc[i] = "l90" /\ v[i] = 2

\* C17: when only toggle_pause is called on a fresh source, an odd number of
\* calls leaves it running and an even number leaves it paused with no loop
\* delivering, and there are never two live loops.
ToggleAlternates ==
    (Configured /\ script \in {"t_odd", "t_even"}) =>
        /\ Cardinality({i \in Threads : Alive(i)}) <= 1
        /\ (cpc = "idle" /\ script = "t_odd") => ~paused
        /\ (cpc = "idle" /\ script = "t_even") =>
               (paused /\ \A i \in Threads : ~Delivering(i))

\* C18: every value a finite generator has yielded was consumed exactly
\* once: it was sent to the sink by a loop or returned by next(), or a loop
\* holds it for its send; the values consumed are 1 .. gen without gap or
\* repeat.  This holds for every sequence of calls, those with next() only
\* between a returned pause() and the next unpause() included.
ExactlyOnce ==
    source_gen = "finite" =>
        \A x \in 1..GenLen :
            took[x] + Cardinality({i \in Threads : v[i] = x})
                = (IF x <= gen THEN 1 ELSE 0)

\* unpause(), pause(), then next() calls only: the loop has delivered to the
\* sink, next() has pulled the last value with no loop alive, and the
\* generator is used up
ExactlyOnceSeen ==
    /\ source_gen = "finite"
    /\ script = "upn"
    /\ chart # <<>>
    /\ quiet
    /\ res = "returned"
    /\ ret = GenLen
====
